---- MODULE Spec2Model ----
(***************************************************************************)
(* State-machine model of cmd/kubeapps-apis/server/server.go: the Serve    *)
(* bootstrap, the four goroutines of the improbable (legacy) handler, the  *)
(* cmux demultiplexer, the connect http.ServeMux and the reverse proxy to  *)
(* the improbable handler.                                                 *)
(***************************************************************************)
EXTENDS Integers, Sequences, FiniteSets, TLC

\* Number of connections the model lets reach the cmux listener.
MaxConns == 2
\* Largest HTTP protocol major version a proxied request is drawn with.
MaxProtoMajor == 3
\* Largest klog verbosity (-v) the process is run with.
MaxVerbosity == 5
\* Largest number of plugins the plugins server has loaded.
MaxPlugins == 2

VARIABLES
    pc,            \* the statement of Serve / startImprobableHandler to run next
    err,           \* the error Serve returned ("nil" while it has not)
    process,       \* "running" | "exited" (klogv2.Fatalf ends the process)
    fatal,         \* the serve call whose error reached klogv2.Fatalf ("nil" if none)
    ctxDone,       \* the context of line 86 has been cancelled (defer cancel())
    listenerCMux,  \* the listener of net.Listen("tcp", ":0"): [state, addr, instances]
    grpcServices,  \* services registered on grpcSrv
    gwServices,    \* services registered on the gateway mux gwArgs.Mux
    muxConnect,    \* mux_connect: set of [pattern, handler]
    sls,           \* cmux matchers, in the order Match/MatchWithWriters added them
    loops,         \* the four goroutines of startImprobableHandler
    frontDoor,     \* http.ListenAndServe of line 133: "none" | "serving" | "stopped"
    port,          \* the port startImprobableHandler returned (0 before)
    proxyPort,     \* the port createProxyToImprobableHandler was given (0 before)
    conns,         \* connections made to the cmux listener, by arrival
    connc,         \* cmux: the channel of each matched sub-listener
    servedInPlace, \* the handler of mux_connect that last served a request itself
    bridgeIn,      \* a request handed to the proxy handler (SpecBridge)
    bridgeOut,     \* what the proxy handler did with it (SpecBridge)
    call,          \* one request followed from the front door on (SpecRoute)
    logRequest,    \* one call handed to LogRequest, and what it logged (SpecLog)
    headerRead,    \* a client that stalls while sending its headers (SpecSlow)
    registry       \* the plugins and what each core service resolved (SpecCapability)

vars == << pc, err, process, fatal, ctxDone, listenerCMux, grpcServices, gwServices,
           muxConnect, sls, loops, frontDoor, port, proxyPort, conns, connc,
           servedInPlace, bridgeIn, bridgeOut, call, logRequest, headerRead,
           registry >>

auxVars == << call, logRequest, headerRead, registry >>

serveVars == << pc, err, process, fatal, ctxDone, listenerCMux, grpcServices,
                gwServices, muxConnect, sls, loops, frontDoor, port, proxyPort,
                conns, connc, servedInPlace >>

-----------------------------------------------------------------------------
\* Strings the code compares by prefix or splits are sequences of tokens.

HasPrefix(s, p) == Len(s) >= Len(p) /\ SubSeq(s, 1, Len(p)) = p

GrpcContentType == << "application/grpc" >>
GrpcWebContentType == << "application/grpc", "-web" >>
GrpcWebProtoContentType == << "application/grpc", "-web", "+proto" >>
JsonContentType == << "application/json" >>
NoContentType == << >>

\* Ports the OS may choose for ":0".
EphemeralPorts == { 32768, 60999 }

\* listenerCMux.Addr().String() for a wildcard TCP listener, as tokens:
\* "0.0.0.0:<port>" or "[::]:<port>".
Txt(s) == [kind |-> "txt", v |-> s]
Num(n) == [kind |-> "num", v |-> n]
IPv4Addr(p) == << Txt("0.0.0.0"), Txt(":"), Num(p) >>
IPv6Addr(p) == << Txt("["), Txt(":"), Txt(":"), Txt("]"), Txt(":"), Num(p) >>
AllListenerAddrs ==
    { IPv4Addr(p) : p \in EphemeralPorts } \cup { IPv6Addr(p) : p \in EphemeralPorts }
\* The addresses Serve is run with.
ListenerAddrs == { IPv4Addr(32768), IPv6Addr(60999) }

NoAddr == << >>

Loops == { "grpc", "grpcWeb", "http", "cmux" }
Listeners == { "grpc", "grpcWeb", "http" }

NoListener == [state |-> "none", addr |-> NoAddr, instances |-> 0]

\* http.ServeMux patterns and request paths, as path segments; a trailing ""
\* is a trailing slash.
PluginsServiceName == "kubeappsapis.core.plugins.v1alpha1.PluginsService"
HealthServiceName == "grpc.health.v1.Health"
PackagesServiceName == "kubeappsapis.core.packages.v1alpha1.PackagesService"
RepositoriesServiceName == "kubeappsapis.core.packages.v1alpha1.RepositoriesService"

PluginsPattern == << PluginsServiceName, "" >>
HealthPattern == << HealthServiceName, "" >>
RootPattern == << "" >>

Paths ==
    { << HealthServiceName, "Check" >>,
      << HealthServiceName >>,
      << PluginsServiceName, "GetConfiguredPlugins" >>,
      << PackagesServiceName, "GetAvailablePackageSummaries" >>,
      << RepositoriesServiceName, "GetPackageRepositorySummaries" >>,
      << "core", "packages", "v1alpha1", "availablepackages" >>,
      << "docs" >>,
      << "" >> }

\* Requests that reach the server: method, content-type and the headers the
\* grpc-web wrapper looks at ("cors": an OPTIONS preflight naming x-grpc-web;
\* "websocket": Upgrade: websocket with the grpc-websockets protocol).
Shapes ==
    { [method |-> "POST", ctype |-> c, hdr |-> "none"] :
        c \in { GrpcContentType, GrpcWebContentType, GrpcWebProtoContentType,
                JsonContentType } }
      \cup { [method |-> "GET", ctype |-> NoContentType, hdr |-> "none"],
             [method |-> "GET", ctype |-> NoContentType, hdr |-> "websocket"],
             [method |-> "OPTIONS", ctype |-> NoContentType, hdr |-> "cors"] }

\* The connect mux is served through h2c.NewHandler: HTTP/1.1 and HTTP/2.
FrontDoorProtos == { 1, 2 }

-----------------------------------------------------------------------------
\* Program order of Serve, with startImprobableHandler inlined at its call.

ServeStepsRegisterAfterGo ==
    << "createImprobableGRPCServer", "NewPluginsServer",
       "registerPluginsServiceServer", "healthHandle",
       "registerPackagesServiceServer",
       "cmuxNew", "goGrpc", "registerRepositoriesServiceServer", "goGrpcWeb",
       "goHttp", "goCMux", "parsePort", "linkProxy", "ListenAndServe" >>

ServeStepsListenBeforeGo ==
    << "createImprobableGRPCServer", "NewPluginsServer",
       "registerPluginsServiceServer", "healthHandle",
       "registerPackagesServiceServer", "registerRepositoriesServiceServer",
       "cmuxNew", "goGrpc", "goGrpcWeb", "goHttp", "parsePort", "linkProxy",
       "ListenAndServe", "goCMux" >>

ServeStepsLinkAfterListen ==
    << "createImprobableGRPCServer", "NewPluginsServer",
       "registerPluginsServiceServer", "healthHandle",
       "registerPackagesServiceServer", "registerRepositoriesServiceServer",
       "cmuxNew", "goGrpc", "goGrpcWeb", "goHttp", "goCMux", "parsePort",
       "ListenAndServe", "linkProxy" >>

ServeStepsRepositoriesFirst ==
    << "createImprobableGRPCServer", "NewPluginsServer",
       "registerPluginsServiceServer", "healthHandle",
       "registerRepositoriesServiceServer", "registerPackagesServiceServer",
       "cmuxNew", "goGrpc", "goGrpcWeb", "goHttp", "goCMux", "parsePort",
       "linkProxy", "ListenAndServe" >>

ServeStepsLinkBeforeGo ==
    << "createImprobableGRPCServer", "NewPluginsServer",
       "registerPluginsServiceServer", "healthHandle",
       "registerPackagesServiceServer", "registerRepositoriesServiceServer",
       "cmuxNew", "linkProxy", "goGrpc", "goGrpcWeb", "goHttp", "goCMux",
       "parsePort", "ListenAndServe" >>

ServeSteps ==
    << "createImprobableGRPCServer", "NewPluginsServer",
       "registerPluginsServiceServer", "healthHandle",
       "registerPackagesServiceServer", "registerRepositoriesServiceServer",
       "cmuxNew", "goGrpc", "goGrpcWeb", "goHttp", "goCMux", "parsePort",
       "linkProxy", "ListenAndServe" >>

StepAfter(s) ==
    LET i == CHOOSE k \in 1..Len(ServeSteps) : ServeSteps[k] = s
    IN  IF i < Len(ServeSteps) THEN ServeSteps[i + 1] ELSE "blocked"

At(s) == process = "running" /\ pc = s

\* return <error> from Serve; the deferred cancel() of line 87 runs.
ReturnError(e) ==
    /\ pc' = "returned"
    /\ err' = e
    /\ ctxDone' = TRUE

\* klogv2.Fatalf: log and end the process; its listeners, goroutines and
\* connections end with it.
Fatalf(which) ==
    /\ process' = "exited"
    /\ fatal' = which
    /\ loops' = [l \in Loops |->
                    IF l = which THEN "failed"
                    ELSE IF loops[l] = "running" THEN "stopped" ELSE loops[l]]
    /\ listenerCMux' = [listenerCMux EXCEPT
                            !.state = IF @ = "bound" THEN "closed" ELSE @]
    /\ conns' = << >>
    /\ connc' = [l \in Listeners |-> << >>]

\* The variables of the single-purpose specifications, while not in use.
AuxIdle ==
    /\ call = << >>
    /\ logRequest = << >>
    /\ headerRead = << >>
    /\ registry = << >>

Init ==
    /\ pc = ServeSteps[1]
    /\ err = "nil"
    /\ process = "running"
    /\ fatal = "nil"
    /\ ctxDone = FALSE
    /\ listenerCMux = NoListener
    /\ grpcServices = {}
    /\ gwServices = {}
    /\ muxConnect = {}
    /\ sls = << >>
    /\ loops = [l \in Loops |-> "none"]
    /\ frontDoor = "none"
    /\ port = 0
    /\ proxyPort = 0
    /\ conns = << >>
    /\ connc = [l \in Listeners |-> << >>]
    /\ servedInPlace = "none"
    /\ bridgeIn = << >>
    /\ bridgeOut = << >>
    /\ AuxIdle

-----------------------------------------------------------------------------
\* Serve, lines 88-91, and createImprobableGRPCServer: the gRPC server with
\* reflection, the gateway mux (which may fail), then net.Listen("tcp", ":0").
CreateImprobableGRPCServer ==
    /\ At("createImprobableGRPCServer")
    /\ \E out \in { "ok", "gatewayMux", "listen" }, a \in ListenerAddrs :
        /\ grpcServices' = grpcServices \cup { "reflection" }
        /\ CASE out = "gatewayMux" ->
                  /\ ReturnError("failed to create gRPC server")
                  /\ UNCHANGED << listenerCMux, gwServices >>
             [] out = "listen" ->
                  /\ ReturnError("failed to create gRPC server")
                  /\ listenerCMux' = [listenerCMux EXCEPT !.state = "bindFailed"]
                  /\ gwServices' = { "/openapi.json", "/docs", "/operators/logo" }
             [] OTHER ->
                  /\ pc' = StepAfter("createImprobableGRPCServer")
                  /\ listenerCMux' = [state |-> "bound", addr |-> a,
                                        instances |-> listenerCMux.instances + 1]
                  /\ gwServices' = { "/openapi.json", "/docs", "/operators/logo" }
                  /\ UNCHANGED << err, ctxDone >>
    /\ UNCHANGED << process, fatal, muxConnect, sls, loops, frontDoor, port,
                    proxyPort, conns, connc, servedInPlace, bridgeIn, bridgeOut, auxVars >>

\* Serve, lines 104-107.
NewPluginsServer ==
    /\ At("NewPluginsServer")
    /\ \E ok \in BOOLEAN :
        IF ok
        THEN /\ pc' = StepAfter("NewPluginsServer")
             /\ UNCHANGED << err, ctxDone >>
        ELSE ReturnError("failed to initialize plugins server")
    /\ UNCHANGED << process, fatal, listenerCMux, grpcServices, gwServices,
                    muxConnect, sls, loops, frontDoor, port, proxyPort, conns,
                    connc, servedInPlace, bridgeIn, bridgeOut, auxVars >>

\* Serve, lines 108-111, and registerPluginsServiceServer.
RegisterPluginsServiceServer ==
    /\ At("registerPluginsServiceServer")
    /\ muxConnect' = muxConnect
            \cup { [pattern |-> PluginsPattern, handler |-> "pluginsService"] }
    /\ \E ok \in BOOLEAN :
        IF ok
        THEN /\ gwServices' = gwServices \cup { "plugins" }
             /\ pc' = StepAfter("registerPluginsServiceServer")
             /\ UNCHANGED << err, ctxDone >>
        ELSE /\ ReturnError("failed to register plugins server")
             /\ UNCHANGED gwServices
    /\ UNCHANGED << process, fatal, listenerCMux, grpcServices, sls, loops,
                    frontDoor, port, proxyPort, conns, connc, servedInPlace,
                    bridgeIn, bridgeOut, auxVars >>

\* Serve, lines 114-117.
HealthHandle ==
    /\ At("healthHandle")
    /\ muxConnect' = muxConnect
            \cup { [pattern |-> HealthPattern, handler |-> "grpchealth"] }
    /\ pc' = StepAfter("healthHandle")
    /\ UNCHANGED << err, process, fatal, ctxDone, listenerCMux, grpcServices,
                    gwServices, sls, loops, frontDoor, port, proxyPort, conns,
                    connc, servedInPlace, bridgeIn, bridgeOut, auxVars >>

\* registerPackagesServiceServer / registerRepositoriesServiceServer: the
\* core server from the plugins, registered on grpcSrv, then on the gateway.
RegisterCoreService(step, svc) ==
    /\ At(step)
    /\ \E out \in { "ok", "server", "gateway" } :
        CASE out = "server" ->
                /\ ReturnError("failed to create core.packages.v1alpha1 server")
                /\ UNCHANGED << grpcServices, gwServices >>
          [] out = "gateway" ->
                /\ ReturnError("failed to register core.packages handler for gateway")
                /\ grpcServices' = grpcServices \cup { svc }
                /\ UNCHANGED gwServices
          [] OTHER ->
                /\ grpcServices' = grpcServices \cup { svc }
                /\ gwServices' = gwServices \cup { svc }
                /\ pc' = StepAfter(step)
                /\ UNCHANGED << err, ctxDone >>
    /\ UNCHANGED << process, fatal, listenerCMux, muxConnect, sls, loops,
                    frontDoor, port, proxyPort, conns, connc, servedInPlace,
                    bridgeIn, bridgeOut, auxVars >>

\* startImprobableHandler, line 324.
RegisterPackagesServiceServer ==
    RegisterCoreService("registerPackagesServiceServer", "packages")

\* startImprobableHandler, line 326.
RegisterRepositoriesServiceServer ==
    RegisterCoreService("registerRepositoriesServiceServer", "repositories")

\* startImprobableHandler, lines 335-337: the matchers, in the order added.
MatchersAnyFirst ==
    << [listener |-> "http", matcher |-> "Any", value |-> NoContentType],
       [listener |-> "grpc", matcher |-> "HTTP2MatchHeaderFieldSendSettings",
        value |-> GrpcContentType],
       [listener |-> "grpcWeb", matcher |-> "HTTP2MatchHeaderFieldSendSettings",
        value |-> GrpcWebContentType] >>

Matchers ==
    << [listener |-> "grpc", matcher |-> "HTTP2MatchHeaderFieldSendSettings",
        value |-> GrpcContentType],
       [listener |-> "grpcWeb", matcher |-> "HTTP2MatchHeaderFieldSendSettings",
        value |-> GrpcWebContentType],
       [listener |-> "http", matcher |-> "Any", value |-> NoContentType] >>

\* startImprobableHandler, lines 334-337.
CMuxNew ==
    /\ At("cmuxNew")
    /\ sls' = Matchers
    /\ pc' = StepAfter("cmuxNew")
    /\ UNCHANGED << err, process, fatal, ctxDone, listenerCMux, grpcServices,
                    gwServices, muxConnect, loops, frontDoor, port, proxyPort,
                    conns, connc, servedInPlace, bridgeIn, bridgeOut, auxVars >>

\* A go statement of lines 357-379: the goroutine runs its Serve call.
Go(step, l) ==
    /\ At(step)
    /\ loops' = [loops EXCEPT ![l] = "running"]
    /\ pc' = StepAfter(step)
    /\ UNCHANGED << err, process, fatal, ctxDone, listenerCMux, grpcServices,
                    gwServices, muxConnect, sls, frontDoor, port, proxyPort,
                    conns, connc, servedInPlace, bridgeIn, bridgeOut, auxVars >>

\* lines 357-362
GoGrpc == Go("goGrpc", "grpc")
\* lines 363-368
GoGrpcWeb == Go("goGrpcWeb", "grpcWeb")
\* lines 369-374
GoHttp == Go("goHttp", "http")
\* lines 375-379
GoCMux == Go("goCMux", "cmux")

\* strings.SplitAfter(addr, ":") and its last part (line 381-382).
IsColon(t) == t.kind = "txt" /\ t.v = ":"
LastPart(addr) ==
    LET colons == { i \in 1..Len(addr) : IsColon(addr[i]) }
        from == IF colons = {} THEN 1
                ELSE (CHOOSE i \in colons : \A j \in colons : j <= i) + 1
    IN  SubSeq(addr, from, Len(addr))

\* strconv.Atoi
Atoi(part) ==
    IF Len(part) = 1 /\ part[1].kind = "num"
    THEN [ok |-> TRUE, n |-> part[1].v]
    ELSE [ok |-> FALSE, n |-> 0]

\* startImprobableHandler, lines 381-386, and Serve, lines 119-122.
ParsePort ==
    /\ At("parsePort")
    /\ LET r == Atoi(LastPart(listenerCMux.addr))
       IN  IF r.ok
           THEN /\ port' = r.n
                /\ pc' = StepAfter("parsePort")
                /\ UNCHANGED << err, ctxDone >>
           ELSE /\ ReturnError("strconv.Atoi")
                /\ UNCHANGED port
    /\ UNCHANGED << process, fatal, listenerCMux, grpcServices, gwServices,
                    muxConnect, sls, loops, frontDoor, proxyPort, conns, connc,
                    servedInPlace, bridgeIn, bridgeOut, auxVars >>

\* Serve, line 130.
LinkProxy ==
    /\ At("linkProxy")
    /\ muxConnect' = muxConnect \cup { [pattern |-> RootPattern, handler |-> "proxy"] }
    /\ proxyPort' = port
    /\ pc' = StepAfter("linkProxy")
    /\ UNCHANGED << err, process, fatal, ctxDone, listenerCMux, grpcServices,
                    gwServices, sls, loops, frontDoor, port, conns, connc,
                    servedInPlace, bridgeIn, bridgeOut, auxVars >>

\* Serve, lines 133-135: http.ListenAndServe binds listenAddr and serves; it
\* returns only with an error, which goes to klogv2.Fatalf.
ListenAndServe ==
    /\ At("ListenAndServe")
    /\ \E bound \in BOOLEAN :
        IF bound
        THEN /\ frontDoor' = "serving"
             /\ pc' = StepAfter("ListenAndServe")
             /\ UNCHANGED << process, fatal, loops, listenerCMux, conns, connc >>
        ELSE /\ frontDoor' = "bindFailed"
             /\ Fatalf("ListenAndServe")
             /\ UNCHANGED pc
    /\ UNCHANGED << err, ctxDone, grpcServices, gwServices, muxConnect, sls,
                    port, proxyPort, servedInPlace, bridgeIn, bridgeOut, auxVars >>

\* Serve, lines 133-135: the serving front door's Serve call returns an error.
FrontDoorServeReturns ==
    /\ process = "running"
    /\ frontDoor = "serving"
    /\ frontDoor' = "failed"
    /\ Fatalf("ListenAndServe")
    /\ UNCHANGED << pc, err, ctxDone, grpcServices, gwServices, muxConnect, sls,
                    port, proxyPort, servedInPlace, bridgeIn, bridgeOut, auxVars >>

\* What a goroutine of lines 357-379 does when its Serve call returns err.
GoroutineLogsOnly(l) ==
    /\ loops' = [loops EXCEPT ![l] = "failed"]
    /\ UNCHANGED << process, fatal, listenerCMux, conns, connc, frontDoor >>

GoroutineOnError(l) ==
    /\ Fatalf(l)
    /\ frontDoor' = IF frontDoor = "serving" THEN "stopped" ELSE frontDoor

\* A serve loop returns an error (its Accept failed: the listener was closed
\* or broke).
ServeLoopReturns ==
    /\ process = "running"
    /\ \E l \in Loops :
        /\ loops[l] = "running"
        /\ GoroutineOnError(l)
    /\ UNCHANGED << pc, err, ctxDone, grpcServices, gwServices, muxConnect, sls,
                    port, proxyPort, servedInPlace, bridgeIn, bridgeOut, auxVars >>

-----------------------------------------------------------------------------
\* http.ServeMux, as mux_connect uses it: an exact pattern wins; a path whose
\* pattern is registered only with a trailing slash is redirected to it;
\* otherwise the longest pattern ending in a slash that is a prefix of the path.

Last(q) == q[Len(q)]

SubtreeMatch(pat, q) ==
    /\ Last(pat) = ""
    /\ Len(q) >= Len(pat)
    /\ SubSeq(q, 1, Len(pat) - 1) = SubSeq(pat, 1, Len(pat) - 1)

ServeMuxHandler(m, q) ==
    LET exact == { e \in m : e.pattern = q }
        slash == { e \in m : Last(q) # "" /\ e.pattern = Append(q, "") }
        hits == { e \in m : SubtreeMatch(e.pattern, q) }
    IN  IF exact # {} THEN (CHOOSE e \in exact : TRUE).handler
        ELSE IF slash # {} THEN "Redirect"
        ELSE IF hits = {} THEN "NotFound"
        ELSE (CHOOSE e \in hits : \A o \in hits : Len(e.pattern) >= Len(o.pattern)).handler

\* createProxyToImprobableHandler: the Director of both reverse proxies
\* (lines 258-261 and 270-273).
DirectorRewritesPath(p, r) ==
    [r EXCEPT !.scheme = "http", !.host = << "127.0.0.1", p >>, !.path = << "" >>]

Director(p, r) ==
    [r EXCEPT !.scheme = "http", !.host = << "127.0.0.1", p >>]

\* createProxyToImprobableHandler, lines 276-282: the proxy a request goes to.
ProxyForAtLeast2(protoMajor) ==
    IF protoMajor >= 2 THEN "h2cProxy" ELSE "http1Proxy"

ProxyFor(protoMajor) ==
    IF protoMajor = 2 THEN "h2cProxy" ELSE "http1Proxy"

\* The connection a reverse proxy makes to the improbable handler: the h2c
\* transport speaks HTTP/2 over cleartext, the default transport HTTP/1.1.
UpstreamProto(proxy) == IF proxy = "h2cProxy" THEN 2 ELSE 1

\* A request served by mux_connect (h2c.NewHandler(mux_connect, ...), line 133):
\* by the handler registered for its path, or by the proxy, which opens a
\* connection to the improbable handler's port.
FrontDoorRequest ==
    /\ process = "running"
    /\ frontDoor = "serving"
    /\ \E q \in Paths :
        LET h == ServeMuxHandler(muxConnect, q)
        IN  IF h = "proxy"
            THEN /\ listenerCMux.state = "bound"
                 /\ Len(conns) < MaxConns
                 /\ \E shape \in Shapes, pm \in FrontDoorProtos :
                      conns' = Append(conns,
                        [proto |-> UpstreamProto(ProxyFor(pm)),
                         method |-> shape.method, ctype |-> shape.ctype,
                         hdr |-> shape.hdr, from |-> "proxy",
                         stage |-> "backlog", listener |-> "none",
                         handler |-> "none"])
                 /\ UNCHANGED servedInPlace
            ELSE /\ servedInPlace' = h
                 /\ UNCHANGED conns
    /\ UNCHANGED << pc, err, process, fatal, ctxDone, listenerCMux, grpcServices,
                    gwServices, muxConnect, sls, loops, frontDoor, port,
                    proxyPort, connc, bridgeIn, bridgeOut, auxVars >>

\* cmux: mux.Serve accepts the next connection and starts sniffing it.
CMuxAccept ==
    /\ process = "running"
    /\ loops["cmux"] = "running"
    /\ listenerCMux.state = "bound"
    /\ \E i \in 1..Len(conns) :
        /\ conns[i].stage = "backlog"
        /\ \A j \in 1..(i - 1) : conns[j].stage # "backlog"
        /\ conns' = [conns EXCEPT ![i].stage = "sniffing"]
    /\ UNCHANGED << pc, err, process, fatal, ctxDone, listenerCMux, grpcServices,
                    gwServices, muxConnect, sls, loops, frontDoor, port,
                    proxyPort, connc, servedInPlace, bridgeIn, bridgeOut, auxVars >>

\* cmux matchers of lines 335-337: the HTTP/2 header-field matcher holds for an
\* HTTP/2 connection whose first HEADERS frame carries exactly that value.
MatcherHolds(m, c) ==
    IF m.matcher = "Any" THEN TRUE
    ELSE c.proto = 2 /\ c.ctype = m.value

RECURSIVE FirstMatchFrom(_, _, _)
FirstMatchFrom(ms, k, c) ==
    IF k > Len(ms) THEN "none"
    ELSE IF MatcherHolds(ms[k], c) THEN ms[k].listener
    ELSE FirstMatchFrom(ms, k + 1, c)

\* cmux: the listener of the first matcher, in the order added, that holds.
CMuxMatch(ms, c) == FirstMatchFrom(ms, 1, c)

\* cmux: a sniffed connection is handed to the matched sub-listener, or
\* closed when no matcher holds.
CMuxServe ==
    /\ process = "running"
    /\ \E i \in 1..Len(conns) :
        /\ conns[i].stage = "sniffing"
        /\ LET l == CMuxMatch(sls, conns[i])
           IN  IF l = "none"
               THEN /\ conns' = [conns EXCEPT ![i].stage = "closed"]
                    /\ UNCHANGED connc
               ELSE /\ conns' = [conns EXCEPT ![i].stage = "queued",
                                              ![i].listener = l]
                    /\ connc' = [connc EXCEPT ![l] = Append(@, i)]
    /\ UNCHANGED << pc, err, process, fatal, ctxDone, listenerCMux, grpcServices,
                    gwServices, muxConnect, sls, loops, frontDoor, port,
                    proxyPort, servedInPlace, bridgeIn, bridgeOut, auxVars >>

\* grpcweb: IsGrpcWebRequest, IsAcceptableGrpcCorsRequest, IsGrpcWebSocketRequest
IsGrpcWebRequest(c) == c.method = "POST" /\ HasPrefix(c.ctype, GrpcWebContentType)
IsAcceptableGrpcCorsRequest(c) == c.method = "OPTIONS" /\ c.hdr = "cors"
IsGrpcWebSocketRequest(c) == c.hdr = "websocket"

\* httpSrv (lines 345-355) is a plain http.Server on a cleartext listener, with
\* no h2c handler: it reads the preface of an HTTP/2 connection as the request
\* "PRI * HTTP/2.0" and hands that to its Handler.
SeenByHttpSrv(c) ==
    IF c.proto = 2
    THEN [c EXCEPT !.method = "PRI", !.ctype = NoContentType, !.hdr = "none"]
    ELSE c

\* httpSrv.Handler, lines 347-353.
HttpSrvHandler(c) ==
    IF IsGrpcWebRequest(c) \/ IsAcceptableGrpcCorsRequest(c) \/ IsGrpcWebSocketRequest(c)
    THEN "webRpcProxy"
    ELSE "gwArgs.Mux"

\* A serve loop takes the next connection of its sub-listener and serves it.
Accept(loop, l, server) ==
    /\ process = "running"
    /\ loops[loop] = "running"
    /\ connc[l] # << >>
    /\ LET i == Head(connc[l])
       IN  conns' = [conns EXCEPT ![i].stage = "served",
                                  ![i].handler = IF server = "httpSrv"
                                                 THEN HttpSrvHandler(SeenByHttpSrv(conns[i]))
                                                 ELSE server]
    /\ connc' = [connc EXCEPT ![l] = Tail(@)]
    /\ UNCHANGED << pc, err, process, fatal, ctxDone, listenerCMux, grpcServices,
                    gwServices, muxConnect, sls, loops, frontDoor, port,
                    proxyPort, servedInPlace, bridgeIn, bridgeOut, auxVars >>

\* line 358: grpcSrv.Serve(grpcListener)
GrpcServe == Accept("grpc", "grpc", "grpcSrv")
\* line 364: grpcSrv.Serve(grpcWebListener)
GrpcWebServe == Accept("grpcWeb", "grpcWeb", "grpcSrv")
\* line 370: httpSrv.Serve(httpListener)
HttpServe == Accept("http", "http", "httpSrv")

-----------------------------------------------------------------------------
Next ==
    \/ CreateImprobableGRPCServer
    \/ NewPluginsServer
    \/ RegisterPluginsServiceServer
    \/ HealthHandle
    \/ RegisterPackagesServiceServer
    \/ RegisterRepositoriesServiceServer
    \/ CMuxNew
    \/ GoGrpc
    \/ GoGrpcWeb
    \/ GoHttp
    \/ GoCMux
    \/ ParsePort
    \/ LinkProxy
    \/ ListenAndServe
    \/ FrontDoorServeReturns
    \/ ServeLoopReturns
    \/ FrontDoorRequest
    \/ CMuxAccept
    \/ CMuxServe
    \/ GrpcServe
    \/ GrpcWebServe
    \/ HttpServe

Spec == Init /\ [][Next]_vars

-----------------------------------------------------------------------------
\* The proxy handler alone: createProxyToImprobableHandler(port) applied to
\* one request.

BridgePaths ==
    { << PackagesServiceName, "GetAvailablePackageSummaries" >>,
      << "core", "packages", "v1alpha1", "availablepackages" >>,
      << "" >> }

BridgeRequests ==
    [ scheme : { "", "https" },
      host : { << "", 0 >>, << "kubeapps.example", 8080 >> },
      path : BridgePaths,
      method : { "GET", "POST" },
      header : { NoContentType, GrpcContentType, GrpcWebContentType },
      body : { "", "payload" },
      protoMajor : 0..MaxProtoMajor ]

InitBridge ==
    /\ pc = "blocked"
    /\ err = "nil"
    /\ process = "running"
    /\ fatal = "nil"
    /\ ctxDone = FALSE
    /\ listenerCMux \in { [state |-> "bound", addr |-> a, instances |-> 1] :
                            a \in AllListenerAddrs }
    /\ grpcServices = {}
    /\ gwServices = {}
    /\ muxConnect = {}
    /\ sls = << >>
    /\ loops = [l \in Loops |-> "none"]
    /\ frontDoor = "none"
    /\ port = Atoi(LastPart(listenerCMux.addr)).n
    /\ proxyPort = port
    /\ conns = << >>
    /\ connc = [l \in Listeners |-> << >>]
    /\ servedInPlace = "none"
    /\ bridgeIn \in { << r >> : r \in BridgeRequests }
    /\ bridgeOut = << >>
    /\ AuxIdle

\* The handler func of lines 276-282 and the Director of the proxy it picks.
ProxyServeHTTP ==
    /\ bridgeIn # << >>
    /\ bridgeOut = << >>
    /\ bridgeOut' = << [proxy |-> ProxyFor(bridgeIn[1].protoMajor),
                        request |-> Director(proxyPort, bridgeIn[1])] >>
    /\ UNCHANGED << serveVars, bridgeIn, auxVars >>

NextBridge == ProxyServeHTTP

SpecBridge == InitBridge /\ [][NextBridge]_vars

-----------------------------------------------------------------------------
\* Properties of Serve.

ServeReturnedError == pc = "returned" /\ err # "nil"

\* C1: whenever Serve has returned an error, the listener of net.Listen(":0")
\* is not bound and none of the four serve loops is running.
C1_NoPartialServerOnError ==
    ServeReturnedError =>
        /\ listenerCMux.state # "bound"
        /\ \A l \in Loops : loops[l] # "running"

\* C2: every listener bind failure, that of the front door included, is
\* returned by Serve as an error, and the process is not ended inside Serve.
C2_BindFailureIsReturned ==
    (listenerCMux.state = "bindFailed" \/ frontDoor = "bindFailed") =>
        /\ ServeReturnedError
        /\ process = "running"

AllServicesRegistered ==
    /\ { "packages", "repositories" } \subseteq grpcServices
    /\ { "plugins", "packages", "repositories" } \subseteq gwServices
    /\ [pattern |-> PluginsPattern, handler |-> "pluginsService"] \in muxConnect

NoServeLoopStarted ==
    /\ \A l \in Loops : loops[l] = "none"
    /\ frontDoor = "none"

ServiceRegistered ==
    \/ grpcServices' # grpcServices
    \/ gwServices' # gwServices
    \/ \E e \in muxConnect' \ muxConnect : e.handler = "pluginsService"

\* C3: once a serve loop of either generation has started, the plugins,
\* packages and repositories services are all registered, and no step
\* registers a service after a serve loop has started.
C3_RegistrationsBeforeServing ==
    /\ [](~NoServeLoopStarted => AllServicesRegistered)
    /\ [][ServiceRegistered => NoServeLoopStarted]_vars

C3_Witness ==
    /\ AllServicesRegistered
    /\ loops["grpc"] = "running"
    /\ frontDoor = "serving"

\* C4: in no state has a serve loop (one of the four goroutines, or the front
\* door's ListenAndServe) returned an error while the process is still
\* running or any loop is still serving.
C4_ServeLoopErrorIsFatal ==
    ((\E l \in Loops : loops[l] = "failed") \/ frontDoor = "failed") =>
        /\ process = "exited"
        /\ \A l \in Loops : loops[l] # "running"
        /\ frontDoor # "serving"

\* The cmux loop failed on its listener while the front door was serving.
C4_Witness ==
    /\ fatal = "cmux"
    /\ loops["cmux"] = "failed"
    /\ listenerCMux.state = "closed"
    /\ frontDoor = "stopped"
    /\ process = "exited"

\* C5: when Serve reaches http.ListenAndServe, and whenever the front door
\* has begun serving, each of the four goroutines has been started.
C5_LoopsStartedBeforeFrontDoor ==
    (pc = "ListenAndServe" \/ frontDoor # "none") =>
        \A l \in Loops : loops[l] # "none"

C5_Witness ==
    /\ frontDoor = "serving"
    /\ \A l \in Loops : loops[l] = "running"

-----------------------------------------------------------------------------
\* Properties of the proxy handler (SpecBridge).

Bridged == bridgeIn # << >> /\ bridgeOut # << >>

\* C6: a request is served by the h2c proxy exactly when its ProtoMajor is 2,
\* by the http1 proxy for every other major version, and by one proxy only.
C6_TransportByProtoMajor ==
    Bridged =>
        /\ bridgeOut[1].proxy \in { "h2cProxy", "http1Proxy" }
        /\ bridgeOut[1].proxy = "h2cProxy" <=> bridgeIn[1].protoMajor = 2
        /\ bridgeOut[1].proxy = "http1Proxy" <=> bridgeIn[1].protoMajor # 2

C6_Witness ==
    /\ Bridged
    /\ bridgeIn[1].protoMajor = 3
    /\ bridgeOut[1].proxy = "http1Proxy"

\* C7: the Director of either proxy sets the URL scheme to http and the URL
\* host to 127.0.0.1:<port of the cmux listener>, and leaves the path, the
\* method, the headers and the body of the request as they came.
C7_DirectorRewritesSchemeAndHostOnly ==
    Bridged =>
        LET in == bridgeIn[1]
            out == bridgeOut[1].request
        IN  /\ out.scheme = "http"
            /\ out.host = << "127.0.0.1", Atoi(LastPart(listenerCMux.addr)).n >>
            /\ out.path = in.path
            /\ out.method = in.method
            /\ out.header = in.header
            /\ out.body = in.body
            /\ out.protoMajor = in.protoMajor

C7_Witness ==
    /\ Bridged
    /\ bridgeIn[1].scheme = "https"
    /\ bridgeIn[1].path = << "core", "packages", "v1alpha1", "availablepackages" >>
    /\ bridgeIn[1].body = "payload"
    /\ bridgeOut[1].request.scheme = "http"
    /\ bridgeOut[1].request.host[2] = 60999

-----------------------------------------------------------------------------
\* Properties of the demultiplexer and of the serve loops behind it.

Delivered(c) == c.stage \in { "queued", "served" }

\* How often connection i stands in the channels of the sub-listeners.
Occurrences(i) ==
    Cardinality({ lk \in Listeners \X (1..MaxConns + 1) :
                    lk[2] <= Len(connc[lk[1]]) /\ connc[lk[1]][lk[2]] = i })

ExactlyOnce ==
    \A i \in 1..Len(conns) :
        /\ conns[i].stage # "closed"
        /\ conns[i].stage = "queued" =>
                Occurrences(i) = 1 /\ \E k \in 1..Len(connc[conns[i].listener]) :
                                            connc[conns[i].listener][k] = i
        /\ conns[i].stage # "queued" => Occurrences(i) = 0
        /\ Delivered(conns[i]) <=> conns[i].listener \in Listeners

ByContentType(c) ==
    IF c.ctype = GrpcContentType THEN "grpc"
    ELSE IF c.ctype = GrpcWebContentType THEN "grpcWeb"
    ELSE "http"

ByHTTP2ContentType(c) ==
    IF c.proto = 2 /\ c.ctype = GrpcContentType THEN "grpc"
    ELSE IF c.proto = 2 /\ c.ctype = GrpcWebContentType THEN "grpcWeb"
    ELSE "http"

\* C8 as stated: every connection cmux has delivered went to exactly one
\* sub-listener: grpc for the content type application/grpc, else grpcWeb for
\* application/grpc-web, else http; none is dropped or delivered twice.
C8_ByContentTypeAlone ==
    /\ ExactlyOnce
    /\ \A i \in 1..Len(conns) :
        Delivered(conns[i]) => conns[i].listener = ByContentType(conns[i])

\* C8, amended: as above, but the two content-type rules apply to HTTP/2
\* connections only; every HTTP/1.x connection goes to the http sub-listener
\* whatever its content type.
C8_ByHTTP2ContentType ==
    /\ ExactlyOnce
    /\ \A i \in 1..Len(conns) :
        Delivered(conns[i]) => conns[i].listener = ByHTTP2ContentType(conns[i])

\* Two connections in cmux at once: an HTTP/2 application/grpc one delivered to
\* grpc, an HTTP/1.1 application/grpc-web one delivered to http.
C8_Witness ==
    \E i, j \in 1..Len(conns) :
        /\ conns[i].proto = 2 /\ conns[i].ctype = GrpcContentType
        /\ conns[i].stage = "queued" /\ conns[i].listener = "grpc"
        /\ conns[j].proto = 1 /\ conns[j].ctype = GrpcWebContentType
        /\ conns[j].stage = "queued" /\ conns[j].listener = "http"

-----------------------------------------------------------------------------
\* Properties of the connect mux.

RoutesInPlace(q) == q[1] \in { HealthServiceName, PluginsServiceName }

RoutingTableComplete ==
    \A q \in Paths :
        LET h == ServeMuxHandler(muxConnect, q)
        IN  IF RoutesInPlace(q)
            THEN h \in { "grpchealth", "pluginsService", "Redirect" }
            ELSE h = "proxy"

C10_DispatchBehindCMux ==
    \A i \in 1..Len(conns) :
        conns[i].stage = "served" =>
            /\ conns[i].listener = "http" =>
                conns[i].handler =
                    IF \/ IsGrpcWebRequest(conns[i])
                       \/ IsAcceptableGrpcCorsRequest(conns[i])
                       \/ IsGrpcWebSocketRequest(conns[i])
                    THEN "webRpcProxy" ELSE "gwArgs.Mux"
            /\ conns[i].listener = "grpcWeb" => conns[i].handler = "webRpcProxy"

-----------------------------------------------------------------------------
\* The improbable handler's port as other hosts see it.

\* The host part of listenerCMux.Addr().String(): what precedes ":<port>".
Host(addr) == SubSeq(addr, 1, Len(addr) - 2)

\* net.Listen("tcp", ":0") (line 304) names no host: the listener is bound to
\* the unspecified address, on every interface of the machine.
WildcardHosts ==
    { << Txt("0.0.0.0") >>, << Txt("["), Txt(":"), Txt(":"), Txt("]") >> }

ReachableFromOtherHosts(addr) == Host(addr) \in WildcardHosts

\* A client on another host dials the port of listenerCMux itself.
DialImprobablePort ==
    /\ process = "running"
    /\ listenerCMux.state = "bound"
    /\ ReachableFromOtherHosts(listenerCMux.addr)
    /\ Len(conns) < MaxConns
    /\ \E shape \in Shapes, pm \in FrontDoorProtos :
          conns' = Append(conns,
            [proto |-> pm, method |-> shape.method, ctype |-> shape.ctype,
             hdr |-> shape.hdr, from |-> "external", stage |-> "backlog",
             listener |-> "none", handler |-> "none"])
    /\ UNCHANGED << pc, err, process, fatal, ctxDone, listenerCMux, grpcServices,
                    gwServices, muxConnect, sls, loops, frontDoor, port,
                    proxyPort, connc, servedInPlace, bridgeIn, bridgeOut, auxVars >>

NextOpen == Next \/ DialImprobablePort

SpecOpen == Init /\ [][NextOpen]_vars

\* C11: every connection made to the improbable handler's listener was dialled
\* by the reverse proxy of createProxyToImprobableHandler, and net.Listen has
\* created at most one such listener.
C11_ImprobableListenerIsInternal ==
    /\ \A i \in 1..Len(conns) : conns[i].from = "proxy"
    /\ listenerCMux.instances <= 1

-----------------------------------------------------------------------------
\* One request followed from the front door to the handler that answers it,
\* in the server as Serve leaves it when http.ListenAndServe serves.

\* The REST routes that Register...HandlerFromEndpoint (lines 154, 170, 392)
\* adds to gwArgs.Mux, each with the RPC the gateway translates it to; the
\* path strings stand for those of the generated registration.
GatewayRoutes ==
    { [svc |-> "packages", method |-> "GET",
       rest |-> << "core", "packages", "v1alpha1", "availablepackages" >>,
       rpc |-> << PackagesServiceName, "GetAvailablePackageSummaries" >>],
      [svc |-> "repositories", method |-> "GET",
       rest |-> << "core", "packages", "v1alpha1", "repositories" >>,
       rpc |-> << RepositoriesServiceName, "GetPackageRepositorySummaries" >>],
      [svc |-> "plugins", method |-> "GET",
       rest |-> << "core", "plugins", "v1alpha1", "configured-plugins" >>,
       rpc |-> << PluginsServiceName, "GetConfiguredPlugins" >>] }

RoutePaths == Paths \cup { r.rest : r \in GatewayRoutes }

\* grpc.NewServer(grpc.ChainUnaryInterceptor(LogRequest)), line 291.
GrpcSrvInterceptors == << "LogRequest" >>

\* pluginsConnect.NewPluginsServiceHandler(pluginsServer), line 391: no
\* handler option, so no interceptor.
PluginsHandlerInterceptors == << >>

\* How many times a unary call made through the chain runs LogRequest.
LogRequests(chain) == Cardinality({ k \in 1..Len(chain) : chain[k] = "LogRequest" })

\* The service of grpcSrv (lines 153, 169) an RPC path names.
GrpcSrvService(path) ==
    IF path[1] = PackagesServiceName THEN "packages"
    ELSE IF path[1] = RepositoriesServiceName THEN "repositories"
    ELSE "none"

\* grpcSrv answers a call of a content type it speaks to a service registered
\* on it; only then does the interceptor chain run.
GrpcSrvCall(c) ==
    IF c.ctype # GrpcContentType THEN "grpcSrv.UnsupportedMediaType"
    ELSE IF GrpcSrvService(c.path) \in grpcServices THEN "grpcSrv"
    ELSE "grpcSrv.Unimplemented"

InitRoute ==
    /\ pc = "blocked"
    /\ err = "nil"
    /\ process = "running"
    /\ fatal = "nil"
    /\ ctxDone = FALSE
    /\ listenerCMux \in { [state |-> "bound", addr |-> a, instances |-> 1] :
                            a \in ListenerAddrs }
    /\ grpcServices = { "reflection", "packages", "repositories" }
    /\ gwServices = { "/openapi.json", "/docs", "/operators/logo", "plugins",
                      "packages", "repositories" }
    /\ muxConnect = { [pattern |-> PluginsPattern, handler |-> "pluginsService"],
                      [pattern |-> HealthPattern, handler |-> "grpchealth"],
                      [pattern |-> RootPattern, handler |-> "proxy"] }
    /\ sls = Matchers
    /\ loops = [l \in Loops |-> "running"]
    /\ frontDoor = "serving"
    /\ port = Atoi(LastPart(listenerCMux.addr)).n
    /\ proxyPort = port
    /\ conns = << >>
    /\ connc = [l \in Listeners |-> << >>]
    /\ servedInPlace = "none"
    /\ bridgeIn = << >>
    /\ bridgeOut = << >>
    /\ call \in { << [at |-> "frontDoor", path |-> q, proto |-> pm,
                       method |-> shape.method, ctype |-> shape.ctype,
                       hdr |-> shape.hdr, entry |-> [path |-> q, proto |-> pm,
                                                    method |-> shape.method,
                                                    hdr |-> shape.hdr],
                       bridged |-> 0, gateway |-> 0, logged |-> 0,
                       handler |-> "none"] >> :
                    q \in RoutePaths, shape \in Shapes, pm \in FrontDoorProtos }
    /\ logRequest = << >>
    /\ headerRead = << >>
    /\ registry = << >>

\* The call, answered by handler h after n runs of LogRequest.
Answered(c, h, n) == [c EXCEPT !.at = "done", !.handler = h, !.logged = @ + n]

RouteUnchanged ==
    UNCHANGED << serveVars, bridgeIn, bridgeOut, logRequest, headerRead, registry >>

\* h2c.NewHandler(mux_connect, ...), line 133: the handler of the path's
\* pattern; the proxy (lines 276-282) dials the improbable handler's port.
MuxConnectServeHTTP ==
    /\ call # << >>
    /\ call[1].at = "frontDoor"
    /\ LET c == call[1]
           h == ServeMuxHandler(muxConnect, c.path)
       IN  call' = << IF h = "proxy"
                      THEN [c EXCEPT !.at = "cmux",
                                     !.proto = UpstreamProto(ProxyFor(c.proto)),
                                     !.bridged = @ + 1]
                      ELSE IF h = "pluginsService"
                      THEN Answered(c, h, LogRequests(PluginsHandlerInterceptors))
                      ELSE Answered(c, h, 0) >>
    /\ RouteUnchanged

\* mux.Serve (line 376): the connection goes to the first matcher that holds.
CMuxServeCall ==
    /\ call # << >>
    /\ call[1].at = "cmux"
    /\ LET c == call[1]
           l == CMuxMatch(sls, c)
       IN  call' = << IF l = "none" THEN Answered(c, "closed", 0)
                      ELSE [c EXCEPT !.at = l] >>
    /\ RouteUnchanged

\* grpcSrv.Serve(grpcListener) and grpcSrv.Serve(grpcWebListener), lines 358, 364.
GrpcSrvServeCall ==
    /\ call # << >>
    /\ call[1].at \in { "grpc", "grpcWeb" }
    /\ LET c == call[1]
           h == GrpcSrvCall(c)
       IN  call' = << Answered(c, h, IF h = "grpcSrv"
                                     THEN LogRequests(GrpcSrvInterceptors) ELSE 0) >>
    /\ RouteUnchanged

\* httpSrv.Serve(httpListener), line 370, and the Handler of lines 347-353:
\* webRpcProxy hands a grpc-web call to grpcSrv; gwArgs.Mux translates the
\* request of a registered route into an RPC it sends to gwArgs.Addr, which is
\* listenAddr (line 314), the front door.
HttpSrvServeCall ==
    /\ call # << >>
    /\ call[1].at = "http"
    /\ LET c == call[1]
           seen == SeenByHttpSrv(c)
           seenPath == IF c.proto = 2 THEN << "*" >> ELSE c.path
           routes == { r \in GatewayRoutes : /\ r.svc \in gwServices
                                             /\ r.rest = seenPath
                                             /\ r.method = seen.method }
           inner == GrpcSrvCall([c EXCEPT !.ctype = GrpcContentType])
       IN  call' = <<
             IF HttpSrvHandler(seen) = "webRpcProxy"
             THEN IF ~IsGrpcWebRequest(seen) THEN Answered(c, "webRpcProxy.other", 0)
                  ELSE IF inner = "grpcSrv"
                  THEN Answered(c, "webRpcProxy", LogRequests(GrpcSrvInterceptors))
                  ELSE Answered(c, inner, 0)
             ELSE IF routes = {} THEN Answered(c, "gwArgs.Mux", 0)
             ELSE [c EXCEPT !.at = "frontDoor",
                            !.path = (CHOOSE r \in routes : TRUE).rpc,
                            !.proto = 2, !.method = "POST",
                            !.ctype = GrpcContentType, !.hdr = "none",
                            !.gateway = @ + 1] >>
    /\ RouteUnchanged

NextRoute ==
    \/ MuxConnectServeHTTP
    \/ CMuxServeCall
    \/ GrpcSrvServeCall
    \/ HttpSrvServeCall

SpecRoute == InitRoute /\ [][NextRoute]_vars

\* A unary RPC has been served by grpcSrv (directly or through the grpc-web
\* wrapper) or by the plugins handler of mux_connect.
UnaryCallServed ==
    /\ call # << >>
    /\ call[1].at = "done"
    /\ \/ call[1].handler \in { "grpcSrv", "webRpcProxy" }
       \/ /\ call[1].handler = "pluginsService"
          /\ call[1].method = "POST"
          /\ HasPrefix(call[1].ctype, GrpcContentType)

\* C12: a unary RPC served by grpcSrv or by the plugins handler of mux_connect
\* has run LogRequest exactly once.
C12_EveryUnaryCallLoggedOnce == UnaryCallServed => call[1].logged = 1

-----------------------------------------------------------------------------
\* LogRequest and getLogLevelOfEndpoint, applied to one call.

\* strings.Contains, on strings as sequences of tokens.
Contains(str, substr) ==
    \E i \in 1..(Len(str) - Len(substr) + 1) :
        SubSeq(str, i, i + Len(substr) - 1) = substr

\* lines 45, 49 and 52
suppressLoggingOfEndpoints == << << "GetConfiguredPlugins" >> >>
DefaultLevel == 3
SuppressedLevel == 4

\* lines 42-58
getLogLevelOfEndpoint(endpoint) ==
    IF \E i \in 1..Len(suppressLoggingOfEndpoints) :
            Contains(endpoint, suppressLoggingOfEndpoints[i])
    THEN SuppressedLevel
    ELSE DefaultLevel

\* info.FullMethod, "/<package>.<Service>/<Method>", cut into tokens where a
\* name has GetConfiguredPlugins as a part.
FullMethods ==
    { << "/", PluginsServiceName, "/", "GetConfiguredPlugins" >>,
      << "/", PackagesServiceName, "/", "GetAvailablePackageSummaries" >>,
      << "/", RepositoriesServiceName, "/", "GetPackageRepositorySummaries" >>,
      << "/", "grpc.reflection.v1alpha.ServerReflection", "/", "ServerReflectionInfo" >>,
      << "/", PluginsServiceName, "/", "GetConfiguredPlugins", "Details" >>,
      << "/", PackagesServiceName, "/", "Force", "GetConfiguredPlugins" >>,
      << "/", "example.v1.", "GetConfiguredPlugins", "Audit", "/", "List" >> }

\* What handler(ctx, req) returns: nil or an error with a status.
HandlerErrors == { "nil", "NotFound", "Internal", "Unauthenticated" }

\* status.Code(err), line 71.
Code(e) == IF e = "nil" THEN "OK" ELSE e

InitLog ==
    /\ pc = ServeSteps[1]
    /\ err = "nil"
    /\ process = "running"
    /\ fatal = "nil"
    /\ ctxDone = FALSE
    /\ listenerCMux = NoListener
    /\ grpcServices = {}
    /\ gwServices = {}
    /\ muxConnect = {}
    /\ sls = << >>
    /\ loops = [l \in Loops |-> "none"]
    /\ frontDoor = "none"
    /\ port = 0
    /\ proxyPort = 0
    /\ conns = << >>
    /\ connc = [l \in Listeners |-> << >>]
    /\ servedInPlace = "none"
    /\ bridgeIn = << >>
    /\ bridgeOut = << >>
    /\ call = << >>
    /\ logRequest \in { << [fullMethod |-> m, verbosity |-> v, stage |-> "called",
                             err |-> "nil", level |-> 0, out |-> << >>] >> :
                          m \in FullMethods, v \in 0..MaxVerbosity }
    /\ headerRead = << >>
    /\ registry = << >>

LogUnchanged ==
    UNCHANGED << serveVars, bridgeIn, bridgeOut, call, headerRead, registry >>

\* LogRequest, line 64: res, err := handler(ctx, req)
LogRequestHandler ==
    /\ logRequest # << >>
    /\ logRequest[1].stage = "called"
    /\ \E e \in HandlerErrors :
          logRequest' = << [logRequest[1] EXCEPT !.stage = "handled", !.err = e] >>
    /\ LogUnchanged

\* LogRequest, lines 66-75: klogv2.V(level).Infof writes the line when the
\* process runs at verbosity level or above.
LogRequestInfof ==
    /\ logRequest # << >>
    /\ logRequest[1].stage = "handled"
    /\ LET r == logRequest[1]
           level == getLogLevelOfEndpoint(r.fullMethod)
       IN  logRequest' = << [r EXCEPT
             !.stage = "returned",
             !.level = level,
             !.out = IF r.verbosity >= level
                     THEN << [code |-> Code(r.err), fullMethod |-> r.fullMethod] >>
                     ELSE << >>] >>
    /\ LogUnchanged

NextLog == LogRequestHandler \/ LogRequestInfof

SpecLog == InitLog /\ [][NextLog]_vars

\* The method of a full method name: what follows its last "/".
MethodName(fullMethod) ==
    LET slashes == { i \in 1..Len(fullMethod) : fullMethod[i] = "/" }
        last == CHOOSE i \in slashes : \A j \in slashes : j <= i
    IN  SubSeq(fullMethod, last + 1, Len(fullMethod))

\* C13: a call LogRequest has logged was logged at level 4 if its method is
\* GetConfiguredPlugins, and at level 3 if it is any other method.
C13_OnlyGetConfiguredPluginsSuppressed ==
    (logRequest # << >> /\ logRequest[1].stage = "returned") =>
        logRequest[1].level =
            IF MethodName(logRequest[1].fullMethod) = << "GetConfiguredPlugins" >>
            THEN 4 ELSE 3

-----------------------------------------------------------------------------
\* The two http.Server values of the process, each reading the request
\* headers of one connection.

\* httpSrv := &http.Server{ReadHeaderTimeout: 60 * time.Second, ...}, line 346.
HttpSrvReadHeaderTimeout == 60

\* http.ListenAndServe(listenAddr, handler), line 133, serves with
\* &http.Server{Addr: listenAddr, Handler: handler}: every timeout is zero.
FrontDoorReadHeaderTimeout == 0

HttpServers == { "frontDoor", "httpSrv" }

ReadHeaderTimeout(server) ==
    IF server = "httpSrv" THEN HttpSrvReadHeaderTimeout
    ELSE FrontDoorReadHeaderTimeout

\* net/http: a zero ReadHeaderTimeout sets no deadline.
HasDeadline(server) == ReadHeaderTimeout(server) > 0

InitSlow ==
    /\ pc = "blocked"
    /\ err = "nil"
    /\ process = "running"
    /\ fatal = "nil"
    /\ ctxDone = FALSE
    /\ listenerCMux \in { [state |-> "bound", addr |-> a, instances |-> 1] :
                            a \in ListenerAddrs }
    /\ grpcServices = { "reflection", "packages", "repositories" }
    /\ gwServices = { "/openapi.json", "/docs", "/operators/logo", "plugins",
                      "packages", "repositories" }
    /\ muxConnect = { [pattern |-> PluginsPattern, handler |-> "pluginsService"],
                      [pattern |-> HealthPattern, handler |-> "grpchealth"],
                      [pattern |-> RootPattern, handler |-> "proxy"] }
    /\ sls = Matchers
    /\ loops = [l \in Loops |-> "running"]
    /\ frontDoor = "serving"
    /\ port = Atoi(LastPart(listenerCMux.addr)).n
    /\ proxyPort = port
    /\ conns = << >>
    /\ connc = [l \in Listeners |-> << >>]
    /\ servedInPlace = "none"
    /\ bridgeIn = << >>
    /\ bridgeOut = << >>
    /\ call = << >>
    /\ logRequest = << >>
    /\ headerRead \in { << [server |-> srv, state |-> "reading", elapsed |-> 0] >> :
                          srv \in HttpServers }
    /\ registry = << >>

SlowUnchanged ==
    UNCHANGED << serveVars, bridgeIn, bridgeOut, call, logRequest, registry >>

\* A second of a set read deadline passes while the server waits for the rest
\* of the headers. A server without ReadHeaderTimeout sets no deadline: its
\* read blocks until the client sends.
Tick ==
    /\ headerRead # << >>
    /\ LET r == headerRead[1]
       IN  /\ r.state = "reading"
           /\ HasDeadline(r.server)
           /\ r.elapsed < ReadHeaderTimeout(r.server)
           /\ headerRead' = << [r EXCEPT !.elapsed = @ + 1] >>
    /\ SlowUnchanged

\* The client sends the end of its headers: the request goes to the handler.
ClientEndsHeaders ==
    /\ headerRead # << >>
    /\ headerRead[1].state = "reading"
    /\ headerRead' = << [headerRead[1] EXCEPT !.state = "served"] >>
    /\ SlowUnchanged

\* The read deadline of a server with a ReadHeaderTimeout expires: the server
\* closes the connection.
ReadHeaderDeadline ==
    /\ headerRead # << >>
    /\ LET r == headerRead[1]
       IN  /\ r.state = "reading"
           /\ HasDeadline(r.server)
           /\ r.elapsed >= ReadHeaderTimeout(r.server)
           /\ headerRead' = << [r EXCEPT !.state = "closed"] >>
    /\ SlowUnchanged

NextSlow == Tick \/ ClientEndsHeaders \/ ReadHeaderDeadline

\* Time passes and an expired deadline is acted on; nothing makes a client
\* finish its headers.
SpecSlow == InitSlow /\ [][NextSlow]_vars /\ WF_vars(Tick) /\ WF_vars(ReadHeaderDeadline)

\* C14: a connection to the front door (the server of http.ListenAndServe)
\* that is still sending its request headers is eventually closed by the
\* server, or served because the headers ended.
C14_FrontDoorClosesSlowHeaders ==
    (headerRead # << >> /\ headerRead[1].server = "frontDoor"
        /\ headerRead[1].state = "reading")
      ~> (headerRead # << >> /\ headerRead[1].state \in { "closed", "served" })

\* The same of httpSrv, which has the timeout.
HttpSrvClosesSlowHeaders ==
    (headerRead # << >> /\ headerRead[1].server = "httpSrv"
        /\ headerRead[1].state = "reading")
      ~> (headerRead # << >> /\ headerRead[1].state \in { "closed", "served" })

-----------------------------------------------------------------------------
\* The plugins each core service is built from.

\* reflect.TypeOf((*packagesGRPCv1alpha1.PackagesServiceServer)(nil)).Elem(),
\* line 146.
PackagesContract == "PackagesServiceServer"

\* reflect.TypeOf((*packagesGRPCv1alpha1.RepositoriesServiceServer)(nil)).Elem(),
\* line 163.
RepositoriesContractCopied == "PackagesServiceServer"

RepositoriesContract == "RepositoriesServiceServer"

Contracts == { "PackagesServiceServer", "RepositoriesServiceServer" }

PluginNames == { "helm.packages", "kapp_controller.packages", "fluxv2.packages" }

\* A loaded plugin: its name and the service contracts its server implements.
PluginHandles == [ name : PluginNames, caps : SUBSET Contracts ]

\* What the plugins server may hold: plugins of distinct names, in load order.
PluginSeqs ==
    { P \in UNION { [1..n -> PluginHandles] : n \in 0..MaxPlugins } :
        \A i, j \in 1..Len(P) : P[i].name = P[j].name => i = j }

\* pluginsServer.GetPluginsSatisfyingInterface (package pluginsv1alpha1): the
\* plugins whose server implements the contract, appended in load order.
RECURSIVE GetPluginsSatisfyingInterface(_, _)
GetPluginsSatisfyingInterface(P, contract) ==
    IF P = << >> THEN << >>
    ELSE LET rest == GetPluginsSatisfyingInterface(Tail(P), contract)
         IN  IF contract \in Head(P).caps THEN << Head(P) >> \o rest ELSE rest

InitCapability ==
    /\ pc = "registerPackagesServiceServer"
    /\ err = "nil"
    /\ process = "running"
    /\ fatal = "nil"
    /\ ctxDone = FALSE
    /\ listenerCMux \in { [state |-> "bound", addr |-> a, instances |-> 1] :
                            a \in ListenerAddrs }
    /\ grpcServices = { "reflection" }
    /\ gwServices = { "/openapi.json", "/docs", "/operators/logo", "plugins" }
    /\ muxConnect = { [pattern |-> PluginsPattern, handler |-> "pluginsService"],
                      [pattern |-> HealthPattern, handler |-> "grpchealth"] }
    /\ sls = << >>
    /\ loops = [l \in Loops |-> "none"]
    /\ frontDoor = "none"
    /\ port = 0
    /\ proxyPort = 0
    /\ conns = << >>
    /\ connc = [l \in Listeners |-> << >>]
    /\ servedInPlace = "none"
    /\ bridgeIn = << >>
    /\ bridgeOut = << >>
    /\ call = << >>
    /\ logRequest = << >>
    /\ headerRead = << >>
    /\ registry \in { << [plugins |-> P, resolved |-> {},
                           packagingPlugins |-> << >>,
                           repositoriesPlugins |-> << >>] >> : P \in PluginSeqs }

CapabilityUnchanged ==
    UNCHANGED << serveVars, bridgeIn, bridgeOut, call, logRequest, headerRead >>

\* registerPackagesServiceServer, lines 146-149.
ResolvePackagingPlugins ==
    /\ registry # << >>
    /\ registry[1].resolved = {}
    /\ registry' = << [registry[1] EXCEPT
          !.resolved = { "packages" },
          !.packagingPlugins =
              GetPluginsSatisfyingInterface(registry[1].plugins, PackagesContract)] >>
    /\ CapabilityUnchanged

\* registerRepositoriesServiceServer, lines 163-166.
ResolveRepositoriesPlugins ==
    /\ registry # << >>
    /\ registry[1].resolved = { "packages" }
    /\ registry' = << [registry[1] EXCEPT
          !.resolved = { "packages", "repositories" },
          !.repositoriesPlugins =
              GetPluginsSatisfyingInterface(registry[1].plugins, RepositoriesContract)] >>
    /\ CapabilityUnchanged

NextCapability == ResolvePackagingPlugins \/ ResolveRepositoriesPlugins

SpecCapability == InitCapability /\ [][NextCapability]_vars

\* r holds exactly the plugins of P whose capability set contains C, in the
\* order of P: its k-th element is the k-th of P that has C.
IsSelectionInOrder(r, P, C) ==
    LET has == { i \in 1..Len(P) : C \in P[i].caps }
    IN  /\ Len(r) = Cardinality(has)
        /\ \A i \in has : r[Cardinality({ j \in has : j <= i })] = P[i]

-----------------------------------------------------------------------------
\* Properties of routing.

\* The request entered the front door as a REST request for a method of the
\* packages or the repositories service.
RestForCoreService(e) ==
    /\ e.hdr = "none"
    /\ \E r \in GatewayRoutes : /\ r.svc \in { "packages", "repositories" }
                                 /\ r.rest = e.path
                                 /\ r.method = e.method

\* No request is proxied more than twice or translated by the gateway more
\* than once.
RouteIsBounded ==
    call # << >> => (call[1].bridged <= 2 /\ call[1].gateway <= 1)

\* C16: no request is proxied to the improbable handler more than twice or
\* translated by the gateway more than once, and a REST request for a method
\* of the packages or repositories service that has been answered was answered
\* by grpcSrv after one translation by the gateway and two passes of the proxy.
C16_RestReachesGrpcSrvInTwoBridges ==
    call # << >> =>
        /\ call[1].bridged <= 2
        /\ call[1].gateway <= 1
        /\ (call[1].at = "done" /\ RestForCoreService(call[1].entry)) =>
              /\ call[1].handler = "grpcSrv"
              /\ call[1].bridged = 2
              /\ call[1].gateway = 1

\* Every request of SpecRoute is answered, under weak fairness of its steps.
RouteTerminates == <>(call # << >> /\ call[1].at = "done")
SpecRouteFair == SpecRoute /\ WF_vars(NextRoute)

-----------------------------------------------------------------------------
\* Properties of startImprobableHandler.

\* Serve returned the error of registerPackagesServiceServer or of
\* registerRepositoriesServiceServer (lines 150, 156, 166, 172).
CoreRegistrationFailed ==
    /\ pc = "returned"
    /\ err \in { "failed to create core.packages.v1alpha1 server",
                  "failed to register core.packages handler for gateway" }

RepositoriesAttempted == "repositories" \in (grpcServices \cup gwServices)

\* C17: the repositories service is registered only after the packages
\* service is registered on grpcSrv and on the gateway; when the packages
\* registration has failed the repositories registration has not been made;
\* and when either has failed there are no cmux matchers, none of the four
\* goroutines has been started, and the port is 0 with the error returned.
C17_RegistrationFailureShortCircuits ==
    /\ RepositoriesAttempted =>
          ("packages" \in grpcServices /\ "packages" \in gwServices)
    /\ (CoreRegistrationFailed /\ "packages" \notin gwServices) =>
          ~RepositoriesAttempted
    /\ CoreRegistrationFailed =>
          /\ sls = << >>
          /\ \A l \in Loops : loops[l] = "none"
          /\ port = 0
          /\ err # "nil"

\* The packages registration has failed at the gateway.
C17_Witness ==
    /\ CoreRegistrationFailed
    /\ "packages" \in grpcServices
    /\ "packages" \notin gwServices

\* The one number of the listener's address: the port the OS bound.
BoundPort(addr) == (CHOOSE t \in { addr[k] : k \in 1..Len(addr) } : t.kind = "num").v

BridgeExists == [pattern |-> RootPattern, handler |-> "proxy"] \in muxConnect

\* C18: whenever mux_connect has the proxy handler, the port the proxy was
\* created with is the port the listener of net.Listen(":0") is bound to,
\* whichever form its address has, and the four goroutines of
\* startImprobableHandler have been started.
C18_BridgeForwardsToBoundPort ==
    BridgeExists =>
        /\ proxyPort = BoundPort(listenerCMux.addr)
        /\ \A l \in Loops : loops[l] # "none"

\* The proxy is linked while the listener has an IPv6 address.
C18_Witness ==
    /\ BridgeExists
    /\ listenerCMux.state = "bound"
    /\ Len(listenerCMux.addr) > 3
    /\ frontDoor = "serving"
====
